---- MODULE Spec2Model ----
(***************************************************************************)
(* Model of the moonshot recipe registry (src/recipes/recipe.py) and of    *)
(* the rouge scorer (data/metrics/rougescorer.py).                         *)
(*                                                                         *)
(* Strings that the code inspects character by character (recipe names,    *)
(* ids, file names) are sequences of one-character strings.  A Python dict *)
(* is a function; the empty dict is the function with the empty domain.    *)
(***************************************************************************)
EXTENDS Integers, Sequences, FiniteSets, TLC

VARIABLES
  store,                 \* Storage namespace RECIPES: id -> stored json object
  catalog,               \* dataset catalog: dataset id -> number of prompts
  result,                \* what the caller's last create/read/load/update/delete
                         \* returned; after: the arguments of the create before it
  deleted,               \* history: ids deleted and not written since
  pc,                    \* get_available_items: "idle", "loop", "returned", "raised"
  recs,                  \* get_available_items: recs (line 261)
  idx,                   \* get_available_items: position of the for loop
  datasets_prompt_counts,\* get_available_items: the precomputed map (line 260)
  retn_recs,             \* get_available_items: retn_recs
  retn_recs_ids,         \* get_available_items: retn_recs_ids
  list_ret,              \* get_available_items: returned tuple or None
  full_scans,            \* history: Dataset.get_available_items() calls of this listing
  filtered_lookups,      \* history: Dataset.get_available_items(datasets) calls of this listing
  reads,                 \* history: Storage.read_object calls of this listing
  read_failed,           \* history: some read of this listing failed
  dirty,                 \* history: the store was written during this listing
  targets,               \* get_results: targets
  predicted_results,     \* get_results: predicted_results
  sc_pc,                 \* get_results: "idle", "loop", "returned", "raised"
  sc_i,                  \* get_results: position of the zip loop
  avg_recall,            \* get_results: avg_recall
  avg_precision,         \* get_results: avg_precision
  avg_fmeasure,          \* get_results: avg_fmeasure
  individual_scores,     \* get_results: individual_scores
  sc_ret,                \* get_results: returned dict or None
  overlap_calls          \* history: scorer.score calls of this get_results

regvars == <<store, catalog, result, deleted, pc, recs, idx,
             datasets_prompt_counts, retn_recs, retn_recs_ids, list_ret,
             full_scans, filtered_lookups, reads, read_failed, dirty>>

scvars == <<targets, predicted_results, sc_pc, sc_i, avg_recall, avg_precision,
            avg_fmeasure, individual_scores, sc_ret, overlap_calls>>

vars == <<regvars, scvars>>

None == "None"

Range(s) == {s[i] : i \in 1..Len(s)}

EmptyDict == [x \in {} |-> 0]

(***************************************************************************)
(* Bounds of the model.                                                    *)
(***************************************************************************)
MaxBatch == 2
MaxNames == 3

(***************************************************************************)
(* slugify(name, lowercase=True)                                           *)
(***************************************************************************)
Lower(c) ==
  CASE c = "A" -> "a"
    [] c = "B" -> "b"
    [] OTHER -> c

IsSlugChar(c) == c \in {"a", "b", "s", "z", "-"}

\* lowercase, then every character outside [-a-z0-9] becomes "-"
Dashed(name) ==
  [i \in 1..Len(name) |->
     IF IsSlugChar(Lower(name[i])) THEN Lower(name[i]) ELSE "-"]

RECURSIVE CollapseDashes(_)
CollapseDashes(s) ==
  IF Len(s) <= 1 THEN s
  ELSE IF s[1] = "-" /\ s[2] = "-" THEN CollapseDashes(Tail(s))
  ELSE <<s[1]>> \o CollapseDashes(Tail(s))

RECURSIVE StripDashes(_)
StripDashes(s) ==
  IF s = <<>> THEN s
  ELSE IF s[1] = "-" THEN StripDashes(Tail(s))
  ELSE IF s[Len(s)] = "-" THEN StripDashes(SubSeq(s, 1, Len(s) - 1))
  ELSE s

slugify(name) == StripDashes(CollapseDashes(Dashed(name)))

(***************************************************************************)
(* "__" in rec   and   Path(rec).stem                                      *)
(***************************************************************************)
Contains(s, sub) ==
  \E i \in 1..Len(s) :
     /\ i + Len(sub) - 1 <= Len(s)
     /\ SubSeq(s, i, i + Len(sub) - 1) = sub

\* rec.endswith("__") in place of "__" in rec
EndsWithDunder(rec) ==
  /\ Len(rec) >= 2
  /\ SubSeq(rec, Len(rec) - 1, Len(rec)) = <<"_", "_">>

IsSystemFile(rec) == Contains(rec, <<"_", "_">>)

Ext == <<".", "j">>

\* the final suffix of a file name is dropped; a leading dot starts no suffix
RECURSIVE LastDot(_, _)
LastDot(s, i) ==
  IF i <= 1 THEN 0
  ELSE IF s[i] = "." THEN i
  ELSE LastDot(s, i - 1)

Stem(rec) ==
  LET d == LastDot(rec, Len(rec))
  IN  IF d = 0 THEN rec ELSE SubSeq(rec, 1, d - 1)

(***************************************************************************)
(* Inputs.                                                                 *)
(***************************************************************************)
NameList ==
  << <<"A">>, <<"a">>, <<"a", " ", "b">>, <<"a", "_", "_", "b">>, <<"B">> >>

Names ==
  {NameList[i] : i \in 1..(IF MaxNames < Len(NameList) THEN MaxNames ELSE Len(NameList))}

Slugs == {slugify(n) : n \in Names}

SystemKey == <<"_", "_", "s">>

EmptyId == <<>>

UnknownId == <<"z">>

DatasetIds == {"ds1", "ds2"}

PromptsOf(d) == IF d = "ds1" THEN 3 ELSE 5

Catalogs == {[d \in D |-> PromptsOf(d)] : D \in SUBSET DatasetIds}

DatasetLists == {<<"ds1">>, <<"ds1", "ds2">>}

BaseFields ==
  {"name", "description", "tags", "categories", "datasets",
   "prompt_templates", "metrics", "attack_modules", "grading_scale"}

\* what a caller passes to create: RecipeArguments without a meaningful id
CreateArgs ==
  {[name |-> n, description |-> "desc", tags |-> <<"t1">>,
    categories |-> <<"c1">>, datasets |-> ds, prompt_templates |-> <<>>,
    metrics |-> <<"m1">>, attack_modules |-> <<>>, grading_scale |-> "gs"] :
     n \in Names, ds \in DatasetLists}

(***************************************************************************)
(* Storage and Dataset collaborators.                                      *)
(***************************************************************************)
Storage_create_object(st, obj_id, obj_info) ==
  [k \in DOMAIN st \cup {obj_id} |-> IF k = obj_id THEN obj_info ELSE st[k]]

Storage_read_object(st, obj_id) ==
  IF obj_id \in DOMAIN st THEN st[obj_id] ELSE EmptyDict

Storage_delete_object(st, obj_id) ==
  [k \in DOMAIN st \ {obj_id} |-> st[k]]

\* the file names of the namespace, in any order the store chooses
Storage_get_objects(st) ==
  {s \in [1..Cardinality(DOMAIN st) -> {k \o Ext : k \in DOMAIN st}] :
     \A i, j \in 1..Cardinality(DOMAIN st) : i # j => s[i] # s[j]}

\* Dataset.get_available_items(datasets): the catalog's entries among datasets
Dataset_get_available_items(cat, datasets) ==
  {[id |-> d, num_of_dataset_prompts |-> cat[d]] : d \in Range(datasets) \cap DOMAIN cat}

\* Dataset.get_available_items(): every entry of the catalog
Dataset_get_all_items(cat) ==
  {[id |-> d, num_of_dataset_prompts |-> cat[d]] : d \in DOMAIN cat}

\* RecipeArguments.to_dict(): every field the object carries
to_dict(rec_args) == [k \in DOMAIN rec_args |-> rec_args[k]]

(***************************************************************************)
(* Recipe helpers.                                                         *)
(***************************************************************************)
Error(msg) == [ok |-> FALSE, error |-> msg, value |-> None, lookups |-> 0]

_get_datasets_prompt_counts(cat) ==
  LET dataset_results == Dataset_get_all_items(cat)
  IN  [d \in {x.id : x \in dataset_results} |->
         (CHOOSE x \in dataset_results : x.id = d).num_of_dataset_prompts]

Stats(obj_results, num_of_datasets_prompts) ==
  [num_of_tags |-> Len(obj_results["tags"]),
   num_of_datasets |-> Len(obj_results["datasets"]),
   num_of_prompt_templates |-> Len(obj_results["prompt_templates"]),
   num_of_metrics |-> Len(obj_results["metrics"]),
   num_of_attack_modules |-> Len(obj_results["attack_modules"]),
   num_of_datasets_prompts |-> num_of_datasets_prompts]

SetItem(d, key, val) ==
  [k \in DOMAIN d \cup {key} |-> IF k = key THEN val ELSE d[k]]

BlankRecipe(rec_id) ==
  [id |-> rec_id, name |-> <<>>, description |-> "", tags |-> <<>>,
   categories |-> <<>>, datasets |-> <<>>, prompt_templates |-> <<>>,
   metrics |-> <<>>, attack_modules |-> <<>>, grading_scale |-> ""]

\* _read_recipe without lines 152-153: a missing object reads as a blank recipe
_read_recipe_no_check(st, cat, rec_id, dataset_prompts_count) ==
  LET obj_results ==
        IF rec_id \in DOMAIN st THEN st[rec_id] ELSE BlankRecipe(rec_id)
  IN  [ok |-> TRUE, error |-> None, lookups |-> 0,
       value |-> SetItem(obj_results, "stats", Stats(obj_results, EmptyDict))]

\* _read_recipe without the branch of line 165: the catalog is asked every time
_read_recipe_always_lookup(st, cat, rec_id, dataset_prompts_count) ==
  LET obj_results == Storage_read_object(st, rec_id)
  IN  IF DOMAIN obj_results = {}
      THEN Error(<<"Unable to get results for", rec_id>>)
      ELSE LET datasets_metadata ==
                 Dataset_get_available_items(cat, obj_results["datasets"])
               counts ==
                 [d \in {x.id : x \in datasets_metadata} |->
                    (CHOOSE x \in datasets_metadata : x.id = d).num_of_dataset_prompts]
           IN  [ok |-> TRUE, error |-> None, lookups |-> 1,
                value |-> SetItem(obj_results, "stats", Stats(obj_results, counts))]

_read_recipe(st, cat, rec_id, dataset_prompts_count) ==
  LET obj_results == Storage_read_object(st, rec_id)
  IN  IF DOMAIN obj_results = {}
      THEN Error(<<"Unable to get results for", rec_id>>)
      ELSE IF DOMAIN dataset_prompts_count # {}
      THEN LET counts ==
                 [d \in Range(obj_results["datasets"]) |->
                    IF d \in DOMAIN dataset_prompts_count
                    THEN dataset_prompts_count[d] ELSE 0]
           IN  [ok |-> TRUE, error |-> None, lookups |-> 0,
                value |-> SetItem(obj_results, "stats", Stats(obj_results, counts))]
      ELSE LET datasets_metadata ==
                 Dataset_get_available_items(cat, obj_results["datasets"])
               counts ==
                 [d \in {x.id : x \in datasets_metadata} |->
                    (CHOOSE x \in datasets_metadata : x.id = d).num_of_dataset_prompts]
           IN  [ok |-> TRUE, error |-> None, lookups |-> 1,
                value |-> SetItem(obj_results, "stats", Stats(obj_results, counts))]

read(st, cat, rec_id) ==
  IF rec_id # EmptyId
  THEN _read_recipe(st, cat, rec_id, EmptyDict)
  ELSE Error(<<"Recipe ID is empty">>)

\* Recipe.__init__: the attributes copied from the RecipeArguments
Recipe(rec_args) ==
  [k \in {"id"} \cup BaseFields \cup {"stats"} |-> rec_args[k]]

(***************************************************************************)
(* Initial state: the namespace holds nothing, or one system file.         *)
(***************************************************************************)
SystemRecord ==
  [id |-> SystemKey, name |-> SystemKey, description |-> "desc",
   tags |-> <<>>, categories |-> <<>>, datasets |-> <<>>,
   prompt_templates |-> <<>>, metrics |-> <<>>, attack_modules |-> <<>>,
   grading_scale |-> "gs"]

NoResult ==
  [op |-> "none", arg |-> None, ok |-> TRUE, error |-> None, value |-> None,
   after |-> <<>>]

Init ==
  /\ store \in {EmptyDict, [k \in {SystemKey} |-> SystemRecord]}
  /\ catalog \in Catalogs
  /\ result = NoResult
  /\ deleted = {}
  /\ pc = "idle"
  /\ recs = <<>>
  /\ idx = 1
  /\ datasets_prompt_counts = EmptyDict
  /\ retn_recs = <<>>
  /\ retn_recs_ids = <<>>
  /\ list_ret = None
  /\ full_scans = 0
  /\ filtered_lookups = 0
  /\ reads = 0
  /\ read_failed = FALSE
  /\ dirty = FALSE
  /\ targets = <<>>
  /\ predicted_results = <<>>
  /\ sc_pc = "idle"
  /\ sc_i = 1
  /\ avg_recall = <<0, 0, 0>>
  /\ avg_precision = <<0, 0, 0>>
  /\ avg_fmeasure = <<0, 0, 0>>
  /\ individual_scores = <<>>
  /\ sc_ret = None
  /\ overlap_calls = 0

listvars == <<pc, recs, idx, datasets_prompt_counts, retn_recs, retn_recs_ids,
              list_ret, full_scans, filtered_lookups, reads, read_failed, dirty>>

\* A call made after get_available_items has returned or raised finds none of
\* that call's locals; a write made while it is still looping is a concurrent
\* writer's and leaves them alone.
\* The caller sees the outcome of its own calls; the outcome of a concurrent
\* writer's call goes to that writer.
Outcome(r) == IF pc = "loop" THEN result ELSE r

ListLocals ==
  IF pc = "loop"
  THEN /\ dirty' = TRUE
       /\ UNCHANGED <<pc, recs, idx, datasets_prompt_counts, retn_recs,
                      retn_recs_ids, list_ret, full_scans, filtered_lookups,
                      reads, read_failed>>
  ELSE /\ pc' = "idle"
       /\ recs' = <<>>
       /\ idx' = 1
       /\ datasets_prompt_counts' = EmptyDict
       /\ retn_recs' = <<>>
       /\ retn_recs_ids' = <<>>
       /\ list_ret' = None
       /\ full_scans' = 0
       /\ filtered_lookups' = 0
       /\ reads' = 0
       /\ read_failed' = FALSE
       /\ dirty' = FALSE

(***************************************************************************)
(* Recipe.create                                                           *)
(***************************************************************************)
Create(rec_args) ==
  LET rec_id == slugify(rec_args.name)
      rec_info ==
        [id |-> rec_id,
         name |-> rec_args.name,
         description |-> rec_args.description,
         tags |-> rec_args.tags,
         categories |-> rec_args.categories,
         datasets |-> rec_args.datasets,
         prompt_templates |-> rec_args.prompt_templates,
         metrics |-> rec_args.metrics,
         attack_modules |-> rec_args.attack_modules,
         grading_scale |-> rec_args.grading_scale]
  IN  /\ store' = Storage_create_object(store, rec_id, rec_info)
      /\ result' = Outcome([op |-> "create", arg |-> rec_args, ok |-> TRUE,
                            error |-> None, value |-> rec_id, after |-> <<>>])
      /\ deleted' = deleted \ {rec_id}
      /\ ListLocals
      /\ UNCHANGED <<catalog, scvars>>

(***************************************************************************)
(* Recipe.load                                                             *)
(***************************************************************************)
Load(rec_id) ==
  LET r == read(store, catalog, rec_id)
  IN  /\ result' = [op |-> "load", arg |-> rec_id, ok |-> r.ok, error |-> r.error,
                    value |-> IF r.ok THEN Recipe(r.value) ELSE None,
                    after |-> IF result.op = "create" THEN <<result.arg>> ELSE <<>>]
      /\ ListLocals
      /\ UNCHANGED <<store, catalog, deleted, scvars>>

(***************************************************************************)
(* Recipe.read                                                             *)
(***************************************************************************)
Read(rec_id) ==
  LET r == read(store, catalog, rec_id)
  IN  /\ result' = [op |-> "read", arg |-> rec_id, ok |-> r.ok, error |-> r.error,
                    value |-> r.value, after |-> <<>>]
      /\ ListLocals
      /\ UNCHANGED <<store, catalog, deleted, scvars>>

(***************************************************************************)
(* Recipe.update                                                           *)
(***************************************************************************)
Update(rec_args) ==
  LET rec_info == to_dict(rec_args)
  IN  /\ store' = Storage_create_object(store, rec_args.id, rec_info)
      /\ result' = Outcome([op |-> "update", arg |-> rec_args.id, ok |-> TRUE,
                            error |-> None, value |-> TRUE, after |-> <<>>])
      /\ deleted' = deleted \ {rec_args.id}
      /\ ListLocals
      /\ UNCHANGED <<catalog, scvars>>

(***************************************************************************)
(* Recipe.delete                                                           *)
(***************************************************************************)
Delete(rec_id) ==
  /\ IF rec_id \in DOMAIN store
     THEN /\ store' = Storage_delete_object(store, rec_id)
          /\ result' = Outcome([op |-> "delete", arg |-> rec_id, ok |-> TRUE,
                                error |-> None, value |-> TRUE, after |-> <<>>])
          /\ deleted' = deleted \cup {rec_id}
     ELSE /\ result' = Outcome([op |-> "delete", arg |-> rec_id, ok |-> FALSE,
                                error |-> <<"No such object", rec_id>>,
                                value |-> None, after |-> <<>>])
          /\ UNCHANGED <<store, deleted>>
  /\ ListLocals
  /\ UNCHANGED <<catalog, scvars>>

(***************************************************************************)
(* Recipe.get_available_items, one loop iteration per step                 *)
(***************************************************************************)
ListBegin ==
  /\ pc \in {"idle", "returned", "raised"}
  /\ datasets_prompt_counts' = _get_datasets_prompt_counts(catalog)
  /\ full_scans' = 1
  /\ \E order \in Storage_get_objects(store) : recs' = order
  /\ idx' = 1
  /\ retn_recs' = <<>>
  /\ retn_recs_ids' = <<>>
  /\ list_ret' = None
  /\ filtered_lookups' = 0
  /\ reads' = 0
  /\ read_failed' = FALSE
  /\ dirty' = FALSE
  /\ pc' = "loop"
  /\ result' = NoResult
  /\ UNCHANGED <<store, catalog, deleted, scvars>>

\* the loop body with the failure swallowed: an unreadable record is skipped
ListStep_skip_unreadable ==
  /\ pc = "loop"
  /\ idx <= Len(recs)
  /\ LET rec == recs[idx]
         r == _read_recipe(store, catalog, Stem(rec), datasets_prompt_counts)
     IN  IF IsSystemFile(rec)
         THEN /\ idx' = idx + 1
              /\ UNCHANGED <<pc, retn_recs, retn_recs_ids, list_ret,
                             filtered_lookups, reads, read_failed>>
         ELSE IF r.ok
         THEN /\ retn_recs' = Append(retn_recs, r.value)
              /\ retn_recs_ids' = Append(retn_recs_ids, r.value.id)
              /\ idx' = idx + 1
              /\ reads' = reads + 1
              /\ filtered_lookups' = filtered_lookups + r.lookups
              /\ UNCHANGED <<pc, list_ret, read_failed>>
         ELSE /\ idx' = idx + 1
              /\ reads' = reads + 1
              /\ read_failed' = TRUE
              /\ UNCHANGED <<pc, list_ret, retn_recs, retn_recs_ids, filtered_lookups>>
  /\ UNCHANGED <<store, catalog, result, deleted, dirty, recs,
                 datasets_prompt_counts, full_scans, scvars>>

ListStep ==
  /\ pc = "loop"
  /\ idx <= Len(recs)
  /\ LET rec == recs[idx]
         r == _read_recipe(store, catalog, Stem(rec), datasets_prompt_counts)
     IN  IF IsSystemFile(rec)
         THEN /\ idx' = idx + 1
              /\ UNCHANGED <<pc, retn_recs, retn_recs_ids, list_ret,
                             filtered_lookups, reads, read_failed>>
         ELSE IF r.ok
         THEN /\ retn_recs' = Append(retn_recs, r.value)
              /\ retn_recs_ids' = Append(retn_recs_ids, r.value.id)
              /\ idx' = idx + 1
              /\ reads' = reads + 1
              /\ filtered_lookups' = filtered_lookups + r.lookups
              /\ UNCHANGED <<pc, list_ret, read_failed>>
         ELSE /\ pc' = "raised"
              /\ list_ret' = None
              /\ reads' = reads + 1
              /\ read_failed' = TRUE
              /\ UNCHANGED <<idx, retn_recs, retn_recs_ids, filtered_lookups>>
  /\ UNCHANGED <<store, catalog, result, deleted, dirty, recs,
                 datasets_prompt_counts, full_scans, scvars>>

ListReturn ==
  /\ pc = "loop"
  /\ idx > Len(recs)
  /\ list_ret' = <<retn_recs_ids, retn_recs>>
  /\ pc' = "returned"
  /\ UNCHANGED <<store, catalog, result, deleted, dirty, recs, idx,
                 datasets_prompt_counts, retn_recs, retn_recs_ids, full_scans,
                 filtered_lookups, reads, read_failed, scvars>>

(***************************************************************************)
(* The registry's callers.                                                 *)
(***************************************************************************)
LoadIds == Slugs \cup {EmptyId, UnknownId, SystemKey}

DeleteIds == Slugs \cup {UnknownId}

\* update is called with fresh arguments or with what the last read returned
UpdateArgs ==
  {SetItem(a, "id", slugify(a.name)) : a \in CreateArgs}
    \cup (IF result.op = "read" /\ result.ok THEN {result.value} ELSE {})

DoCreate == \E rec_args \in CreateArgs : Create(rec_args)

DoLoad == pc # "loop" /\ \E rec_id \in LoadIds : Load(rec_id)

DoRead == pc # "loop" /\ \E rec_id \in Slugs : Read(rec_id)

DoUpdate == pc # "loop" /\ \E rec_args \in UpdateArgs : Update(rec_args)

DoDelete == \E rec_id \in DeleteIds : Delete(rec_id)

Next ==
  \/ DoCreate
  \/ DoLoad
  \/ DoRead
  \/ DoUpdate
  \/ DoDelete
  \/ ListBegin
  \/ ListStep
  \/ ListReturn

Spec == Init /\ [][Next]_vars

(***************************************************************************)
(* RougeScorer.get_results.  Scores are kept in hundredths; an average is  *)
(* the exact quotient sum / len(targets).                                  *)
(***************************************************************************)
test_metrics == <<"rouge1", "rouge2", "rougeLsum">>

\* a value that is not a text: scorer.score raises on it
Malformed == <<None>>

Texts == {<<"the", "cat">>, <<"the", "dog">>, Malformed}

Batches == UNION {[1..n -> Texts] : n \in 0..MaxBatch}

Min(a, b) == IF a < b THEN a ELSE b

Ngrams(text, n) == {SubSeq(text, i, i + n - 1) : i \in 1..(Len(text) - n + 1)}

RECURSIVE LcsLen(_, _)
LcsLen(a, b) ==
  IF a = <<>> \/ b = <<>> THEN 0
  ELSE IF a[1] = b[1] THEN 1 + LcsLen(Tail(a), Tail(b))
  ELSE LET x == LcsLen(Tail(a), b)
           y == LcsLen(a, Tail(b))
       IN  IF x > y THEN x ELSE y

Fmeasure(p, r) == IF p + r = 0 THEN 0 ELSE (2 * p * r) \div (p + r)

RougeScore(matches, target_total, prediction_total) ==
  LET p == IF prediction_total = 0 THEN 0 ELSE (100 * matches) \div prediction_total
      r == IF target_total = 0 THEN 0 ELSE (100 * matches) \div target_total
  IN  [precision |-> p, recall |-> r, fmeasure |-> Fmeasure(p, r)]

\* rouge_scorer.RougeScorer(test_metrics).score(target, prediction)
scorer_score(target, prediction) ==
  [m \in Range(test_metrics) |->
     CASE m = "rouge1" ->
            RougeScore(Cardinality(Ngrams(target, 1) \cap Ngrams(prediction, 1)),
                       Cardinality(Ngrams(target, 1)),
                       Cardinality(Ngrams(prediction, 1)))
       [] m = "rouge2" ->
            RougeScore(Cardinality(Ngrams(target, 2) \cap Ngrams(prediction, 2)),
                       Cardinality(Ngrams(target, 2)),
                       Cardinality(Ngrams(prediction, 2)))
       [] OTHER ->
            RougeScore(LcsLen(target, prediction), Len(target), Len(prediction))]

ZeroDivisionError == [raised |-> "ZeroDivisionError"]

\* a division that yields zero for an empty batch instead of raising
TrueDiv_zero_safe(x, n) ==
  IF n = 0 THEN [num |-> 0, den |-> 1] ELSE [num |-> x, den |-> n]

\* x / n
TrueDiv(x, n) ==
  IF n = 0 THEN ZeroDivisionError ELSE [num |-> x, den |-> n]

AvgKey(m) == "avg_" \o m

ScoreBegin ==
  /\ sc_pc \in {"idle", "returned", "raised"}
  /\ \E t \in Batches, p \in Batches :
        /\ targets' = t
        /\ predicted_results' = p
  /\ avg_recall' = <<0, 0, 0>>
  /\ avg_precision' = <<0, 0, 0>>
  /\ avg_fmeasure' = <<0, 0, 0>>
  /\ individual_scores' = <<>>
  /\ sc_i' = 1
  /\ sc_ret' = None
  /\ overlap_calls' = 0
  /\ sc_pc' = "loop"
  /\ UNCHANGED regvars

\* one iteration of: for target, result in zip(targets, predicted_results)
ScoreStep ==
  /\ sc_pc = "loop"
  /\ sc_i <= Min(Len(targets), Len(predicted_results))
  /\ overlap_calls' = overlap_calls + 1
  /\ LET target == targets[sc_i]
         res == predicted_results[sc_i]
     IN  IF target = Malformed \/ res = Malformed
         THEN /\ sc_pc' = "raised"
              /\ sc_ret' = None
              /\ UNCHANGED <<sc_i, avg_recall, avg_precision, avg_fmeasure,
                             individual_scores>>
         ELSE LET scores == scorer_score(target, res)
              IN  /\ avg_recall' =
                       [k \in 1..3 |-> avg_recall[k] + scores[test_metrics[k]].recall]
                  /\ avg_precision' =
                       [k \in 1..3 |-> avg_precision[k] + scores[test_metrics[k]].precision]
                  /\ avg_fmeasure' =
                       [k \in 1..3 |-> avg_fmeasure[k] + scores[test_metrics[k]].fmeasure]
                  /\ individual_scores' =
                       Append(individual_scores,
                              [m \in Range(test_metrics) |->
                                 [r |-> scores[m].recall,
                                  p |-> scores[m].precision,
                                  f |-> scores[m].fmeasure]])
                  /\ sc_i' = sc_i + 1
                  /\ UNCHANGED <<sc_pc, sc_ret>>
  /\ UNCHANGED <<regvars, targets, predicted_results>>

\* lines 86-103: the averages, the returned dictionary, the except clause
ScoreAverage ==
  /\ sc_pc = "loop"
  /\ sc_i > Min(Len(targets), Len(predicted_results))
  /\ LET avgs ==
           [k \in 1..3 |->
              [r |-> TrueDiv(avg_recall[k], Len(targets)),
               p |-> TrueDiv(avg_precision[k], Len(targets)),
               f |-> TrueDiv(avg_fmeasure[k], Len(targets))]]
         output_dict ==
           [key \in {"rouge-scores"} \cup {AvgKey(test_metrics[k]) : k \in 1..3} |->
              IF key = "rouge-scores" THEN individual_scores
              ELSE avgs[CHOOSE k \in 1..3 : AvgKey(test_metrics[k]) = key]]
     IN  IF \E k \in 1..3 : \E v \in {avgs[k].r, avgs[k].p, avgs[k].f} : "raised" \in DOMAIN v
         THEN /\ sc_pc' = "raised"
              /\ sc_ret' = None
         ELSE /\ sc_pc' = "returned"
              /\ sc_ret' = [rouge |-> output_dict]
  /\ UNCHANGED <<regvars, targets, predicted_results, sc_i, avg_recall,
                 avg_precision, avg_fmeasure, individual_scores, overlap_calls>>

NextScore ==
  \/ ScoreBegin
  \/ ScoreStep
  \/ ScoreAverage

SpecScore == Init /\ [][NextScore]_vars

(***************************************************************************)
(* Properties.                                                             *)
(***************************************************************************)
HasDunder(key) == Contains(key, <<"_", "_">>)

StatsPopulated(rec) ==
  /\ rec["stats"]["num_of_tags"] = Len(rec["tags"])
  /\ rec["stats"]["num_of_datasets"] = Len(rec["datasets"])
  /\ rec["stats"]["num_of_prompt_templates"] = Len(rec["prompt_templates"])
  /\ rec["stats"]["num_of_metrics"] = Len(rec["metrics"])
  /\ rec["stats"]["num_of_attack_modules"] = Len(rec["attack_modules"])

ZeroForUnknown(rec) ==
  LET counts == rec["stats"]["num_of_datasets_prompts"]
  IN  /\ DOMAIN counts = Range(rec["datasets"])
      /\ \A d \in Range(rec["datasets"]) \ DOMAIN catalog : counts[d] = 0

\* C1: a load that directly follows create(fields), of the id create returned,
\* succeeds with base fields equal to fields, the stats block populated and
\* stats.num_of_datasets_prompts keyed exactly by the ids of fields.datasets.
C1_RoundTrip ==
  \A fields \in CreateArgs :
    (/\ result.op = "load"
     /\ result.after = <<fields>>
     /\ result.arg = slugify(fields.name))
    => /\ result.ok
       /\ \A k \in BaseFields : result.value[k] = fields[k]
       /\ StatsPopulated(result.value)
       /\ DOMAIN result.value["stats"]["num_of_datasets_prompts"]
            = Range(fields.datasets)

\* C2: a load of the empty id, of an id deleted and not written since, or of
\* an id with no record fails with the not-found error and returns no record.
C2_DeleteThenLoad ==
  (/\ result.op = "load"
   /\ \/ result.arg = EmptyId
      \/ result.arg \in deleted
      \/ result.arg \notin DOMAIN store)
  => /\ ~result.ok
     /\ result.value = None
     /\ result.error = IF result.arg = EmptyId
                       THEN <<"Recipe ID is empty">>
                       ELSE <<"Unable to get results for", result.arg>>

C2_Witness ==
  /\ result.op = "load"
  /\ result.arg \in deleted
  /\ result.arg \in Slugs
  /\ ~result.ok

\* C3: every read of a stored recipe, through read/load or through the
\* listing, succeeds and gives each dataset id of the recipe that the catalog
\* lacks the count 0, the keys of the counts being the recipe's datasets.
C3_UnknownDatasetTolerance ==
  /\ (result.op \in {"read", "load"} /\ result.arg \in DOMAIN store)
       => (result.ok /\ ZeroForUnknown(result.value))
  /\ \A k \in 1..Len(retn_recs) : ZeroForUnknown(retn_recs[k])

\* C4: no stored recipe record has a stats field.
C4_StatsNeverPersisted ==
  \A k \in DOMAIN store : "stats" \notin DOMAIN store[k]

\* C5: a successful create under a name whose slug already holds a record
\* made for a different name leaves that record as it was.
C5_NoSilentOverwrite ==
  [][(/\ result'.op = "create"
      /\ result'.ok
      /\ result'.value \in DOMAIN store
      /\ store[result'.value]["name"] # result'.arg.name)
     => store'[result'.value] = store[result'.value]]_vars

\* C6: a returned listing holds no record whose key contains "__", holds the
\* enumerated keys without "__" once each in enumeration order, ids[k] being
\* the id of records[k]; with no concurrent write these are exactly the
\* stored records whose key has no "__".
C6_ListingExclusion ==
  pc = "returned" =>
    LET ids == list_ret[1]
        records == list_ret[2]
        listed == SelectSeq(recs, LAMBDA f : ~HasDunder(f))
    IN  /\ Len(ids) = Len(records)
        /\ Len(ids) = Len(listed)
        /\ \A k \in 1..Len(ids) :
              /\ ~HasDunder(ids[k])
              /\ records[k]["id"] = ids[k]
              /\ listed[k] = ids[k] \o Ext
        /\ \A j, k \in 1..Len(ids) : j # k => ids[j] # ids[k]
        /\ ~dirty =>
              /\ Range(ids) = {key \in DOMAIN store : ~HasDunder(key)}
              /\ \A k \in 1..Len(ids) :
                    \A f \in DOMAIN store[ids[k]] \ {"stats"} :
                       records[k][f] = store[ids[k]][f]

C6_Witness ==
  /\ pc = "returned"
  /\ ~dirty
  /\ SystemKey \in DOMAIN store
  /\ Len(list_ret[1]) >= 2
  /\ Len(recs) > Len(list_ret[1])

\* C7: when targets and predictions differ in length, get_results raises and
\* scorer.score is never called.
C7_MismatchedLengthRejection ==
  (sc_pc # "idle" /\ Len(targets) # Len(predicted_results))
  => /\ overlap_calls = 0
     /\ sc_pc # "returned"

\* C8: get_results of an empty batch raises and returns no dictionary, and no
\* returned average has a zero divisor.
C8_EmptyBatch ==
  /\ (sc_pc \in {"returned", "raised"} /\ targets = <<>> /\ predicted_results = <<>>)
       => (sc_pc = "raised" /\ sc_ret = None)
  /\ sc_pc = "returned" =>
       \A k \in 1..3 : \A part \in {"r", "p", "f"} :
          LET avg == sc_ret["rouge"][AvgKey(test_metrics[k])][part]
          IN  avg.den = Len(targets) /\ avg.den > 0

C8_Witness ==
  /\ sc_pc = "raised"
  /\ targets = <<>>
  /\ predicted_results = <<>>
  /\ overlap_calls = 0

\* C9 as stated: in a listing the catalog is queried exactly once and no
\* record read queries it again, whatever the catalog holds.
C9_SingleCatalogScan ==
  pc # "idle" => (full_scans = 1 /\ filtered_lookups = 0)

\* C9 amended: in a listing the full catalog is scanned exactly once, before
\* any record is read; with a catalog that is not empty no record read
\* queries it again; with an empty catalog every record read makes one lookup
\* restricted to its own datasets.
C9_SingleScanOfNonEmptyCatalog ==
  pc # "idle" =>
    /\ full_scans = 1
    /\ reads >= Len(retn_recs)
    /\ IF DOMAIN catalog # {}
       THEN filtered_lookups = 0
       ELSE filtered_lookups = Len(retn_recs)

C9_Witness ==
  /\ pc = "returned"
  /\ DOMAIN catalog # {}
  /\ Len(retn_recs) >= 2
  /\ filtered_lookups = 0

\* C10: once a read of the listing has failed the call has raised and returns
\* neither list, whatever was read before; no step of the listing changes
\* the store.
C10_NoPartialListing ==
  /\ [](read_failed => (pc = "raised" /\ list_ret = None))
  /\ [][(\/ pc # "loop" /\ pc' = "loop"
         \/ pc = "loop" /\ (idx' # idx \/ pc' # pc))
        => store' = store]_vars

C10_Witness ==
  /\ pc = "raised"
  /\ read_failed
  /\ dirty
  /\ Len(retn_recs) >= 1

====
